---- MODULE Spec2Model ----
(***************************************************************************)
(* gohttp: ParseRequest / SerializeRequest and their helpers, modelled     *)
(* from the most recent revision of the package (src/unnamed/part_001).    *)
(*                                                                         *)
(* A Go string or []byte is a sequence of one-character strings.  A Go     *)
(* pointer or interface value is a sequence of at most one element: <<>>   *)
(* is nil, <<x>> points to x.  A nil error is the string Nil.              *)
(***************************************************************************)
EXTENDS Integers, Sequences, FiniteSets, TLC

VARIABLES
    allowLFLineEndings, \* the package variable (part_001:19-21)
    pc,                 \* per goroutine: the position inside ParseRequest
    input,              \* per goroutine: the description of the bytes its connection delivers
    stream,             \* per goroutine: the bytes the bufio.Reader has not handed out yet
    request,            \* per goroutine: the local http.Request being filled in
    line,               \* per goroutine: the local variable line of the header loop
    length,             \* per goroutine: the result of determineBodyLength
    body,               \* per goroutine: the local body buffer after r.Read
    ret,                \* per goroutine: what ParseRequest returned
    lfAtStart,          \* per goroutine: the setting when ParseRequest was entered
    lfSeen,             \* per goroutine: the settings its isNewLine calls have read
    startLine,          \* per goroutine: the line handed to parseRequestLine
    call                \* the last direct call of a helper: its name, arguments, result

vars == <<allowLFLineEndings, pc, input, stream, request, line, length, body,
          ret, lfAtStart, lfSeen, startLine, call>>

Nil == "nil"

----------------------------------------------------------------------------
(* Bytes *)

CR == "\r"
LF == "\n"
SP == " "
TAB == "\t"
CRLF == <<CR, LF>>

LowerLetters == <<"a", "b", "c", "d", "e", "f", "g", "h", "i", "j", "k", "l", "m",
                  "n", "o", "p", "q", "r", "s", "t", "u", "v", "w", "x", "y", "z">>
UpperLetters == <<"A", "B", "C", "D", "E", "F", "G", "H", "I", "J", "K", "L", "M",
                  "N", "O", "P", "Q", "R", "S", "T", "U", "V", "W", "X", "Y", "Z">>
HexDigits == <<"0", "1", "2", "3", "4", "5", "6", "7", "8", "9",
               "a", "b", "c", "d", "e", "f">>
TokenPunct == {"!", "#", "$", "%", "&", "*", "+", "-", ".", "^", "_", "|", "~"}

Range(s) == {s[i] : i \in 1..Len(s)}

IsLower(c) == c \in Range(LowerLetters)
IsUpper(c) == c \in Range(UpperLetters)
IsDecimal(c) == c \in Range(SubSeq(HexDigits, 1, 10))

PosIn(c, s) == CHOOSE i \in 1..Len(s) : s[i] = c

ToUpper(c) == IF IsLower(c) THEN UpperLetters[PosIn(c, LowerLetters)] ELSE c
ToLower(c) == IF IsUpper(c) THEN LowerLetters[PosIn(c, UpperLetters)] ELSE c

\* unicode.IsSpace, on the bytes the model uses
IsSpace(c) == c \in {SP, TAB, CR, LF}

----------------------------------------------------------------------------
(* The Go library calls the package makes *)

\* strings.IndexByte: the first position of c in s, 0 when there is none
IndexByte(s, c) ==
    IF c \in Range(s)
    THEN CHOOSE i \in 1..Len(s) : s[i] = c /\ \A j \in 1..(i - 1) : s[j] # c
    ELSE 0

Tail2(s, i) == SubSeq(s, i + 1, Len(s))

\* strings.SplitN(s, c, n) for n > 0: at most n pieces, the last one unsplit
RECURSIVE SplitN(_, _, _)
SplitN(s, c, n) ==
    LET i == IndexByte(s, c)
    IN  IF n = 1 \/ i = 0
        THEN <<s>>
        ELSE <<SubSeq(s, 1, i - 1)>> \o SplitN(Tail2(s, i), c, n - 1)

\* strings.Split(s, c): every piece
Split(s, c) == SplitN(s, c, Len(s) + 1)

\* strings.TrimSuffix(s, "\n")
TrimSuffixLF(s) ==
    IF Len(s) > 0 /\ s[Len(s)] = LF THEN SubSeq(s, 1, Len(s) - 1) ELSE s

\* strings.TrimRightFunc(s, unicode.IsSpace)
RECURSIVE TrimRightSpace(_)
TrimRightSpace(s) ==
    IF Len(s) > 0 /\ IsSpace(s[Len(s)])
    THEN TrimRightSpace(SubSeq(s, 1, Len(s) - 1))
    ELSE s

RECURSIVE TrimLeftSpace(_)
TrimLeftSpace(s) ==
    IF Len(s) > 0 /\ IsSpace(s[1]) THEN TrimLeftSpace(Tail(s)) ELSE s

\* strings.TrimSpace
TrimSpace(s) == TrimLeftSpace(TrimRightSpace(s))

\* The digits of s read in the given base: [ok, val]; no digit at all is an error
RECURSIVE ParseDigits(_, _, _)
ParseDigits(s, base, acc) ==
    IF s = <<>>
    THEN [ok |-> TRUE, val |-> acc]
    ELSE LET c == ToLower(s[1])
         IN  IF c \in Range(SubSeq(HexDigits, 1, base))
             THEN ParseDigits(Tail(s), base, acc * base + (PosIn(c, HexDigits) - 1))
             ELSE [ok |-> FALSE, val |-> 0]

\* strconv.ParseInt(s, base, 64): an optional sign, then at least one digit.
\* The values of the model stay far below 2^63, where ParseInt saturates.
ParseInt(s, base) ==
    LET signed == Len(s) > 0 /\ s[1] \in {"+", "-"}
        digits == IF signed THEN Tail(s) ELSE s
        r      == ParseDigits(digits, base, 0)
    IN  IF digits = <<>> \/ ~r.ok
        THEN [err |-> "invalid syntax", val |-> 0]
        ELSE [err |-> Nil, val |-> IF signed /\ s[1] = "-" THEN 0 - r.val ELSE r.val]

\* strconv.Atoi
Atoi(s) == ParseInt(s, 10)

\* net/textproto: validHeaderFieldByte
ValidHeaderFieldByte(c) == IsLower(c) \/ IsUpper(c) \/ IsDecimal(c) \/ c \in TokenPunct

\* net/textproto.CanonicalMIMEHeaderKey: a key with a byte that no field name may
\* hold is left as it is; otherwise the first letter and every letter after a dash
\* is upper case and every other letter lower case.
CanonicalMIMEHeaderKey(s) ==
    IF \E i \in 1..Len(s) : ~ValidHeaderFieldByte(s[i])
    THEN s
    ELSE [i \in 1..Len(s) |->
            IF i = 1 \/ s[i - 1] = "-" THEN ToUpper(s[i]) ELSE ToLower(s[i])]

\* http.Header is a map from the canonical key to the list of its values.
EmptyHeader == <<>>

\* http.Header.Add
HeaderAdd(h, key, value) ==
    LET k == CanonicalMIMEHeaderKey(key)
    IN  IF k \in DOMAIN h
        THEN [h EXCEPT ![k] = Append(@, value)]
        ELSE h @@ (k :> <<value>>)

\* http.Header.Get: the first value of the key, "" when there is none
HeaderGet(h, key) ==
    LET k == CanonicalMIMEHeaderKey(key)
    IN  IF k \in DOMAIN h /\ Len(h[k]) > 0 THEN h[k][1] ELSE <<>>

\* url.Parse on a request target made of letters, digits, slash, dot and dash: a
\* control character is refused, any other such target is kept as it is written
\* and URL.String gives it back.
UrlParse(s) ==
    IF \E i \in 1..Len(s) : s[i] \in {CR, LF, TAB}
    THEN [err |-> "net/url: invalid control character in URL", url |-> <<>>]
    ELSE [err |-> Nil, url |-> <<[raw |-> s]>>]

\* URL.String
UrlString(u) == u[1].raw

\* bufio.Reader.ReadString: the bytes up to and with the first LF; when the
\* source ends first, what is left and the error of the source (io.EOF at the end of
\* the data, the connection's error otherwise).
ReadString(data, endErr) ==
    LET i == IndexByte(data, LF)
    IN  IF i = 0
        THEN [line |-> data, err |-> endErr, rest |-> <<>>]
        ELSE [line |-> SubSeq(data, 1, i), err |-> Nil, rest |-> Tail2(data, i)]

----------------------------------------------------------------------------
(* The package: src/unnamed/part_001 *)

\* The errors ParseRequest returns, by their text
ErrEOF == "EOF"
ErrRequestLine == "invalid request line syntax"
ErrHeaderField == "invalid header field syntax"
ErrNoEmptyLine == "empty line after header section is missing"
ErrBodyLength == "wrong body length"

\* The blank-line test of the earlier revision (src/gohttp.go:388-393): with the
\* tolerance off only a bare LF counts as blank
isNewLineBareLF(l, allow) ==
    IF allow THEN l = CRLF \/ l = <<LF>> ELSE l = <<LF>>

\* isNewLine, given the value it reads from the package variable
isNewLine(l, allow) ==
    IF allow THEN l = CRLF \/ l = <<LF>> ELSE l = CRLF

\* parseRequestLine
parseRequestLine(l) ==
    LET data == Split(l, SP)
    IN  IF Len(data) # 3
        THEN [method |-> <<>>, url |-> <<>>, protocol |-> <<>>, err |-> ErrRequestLine]
        ELSE LET method    == TrimSuffixLF(data[1])
                 targetUrl == TrimSuffixLF(data[2])
                 protocol  == TrimSuffixLF(data[3])
                 parsed    == UrlParse(targetUrl)
             IN  IF parsed.err # Nil
                 THEN [method |-> <<>>, url |-> <<>>, protocol |-> <<>>, err |-> parsed.err]
                 ELSE [method |-> method, url |-> parsed.url, protocol |-> protocol,
                       err |-> Nil]

\* parseHeaderField
parseHeaderField(l) ==
    LET tokens == SplitN(l, ":", 2)
    IN  IF Len(tokens) # 2
        THEN [name |-> <<>>, value |-> <<>>, err |-> ErrHeaderField]
        ELSE [name  |-> TrimSpace(tokens[1]),
              value |-> TrimSpace(TrimSuffixLF(tokens[2])),
              err   |-> Nil]

TransferEncoding == <<"T", "r", "a", "n", "s", "f", "e", "r", "-",
                      "E", "n", "c", "o", "d", "i", "n", "g">>
ContentLength == <<"C", "o", "n", "t", "e", "n", "t", "-", "L", "e", "n", "g", "t", "h">>

\* determineBodyLength with the two tests in the other order: Content-Length wins
determineBodyLengthContentLengthFirst(headers, data, endErr) ==
    IF HeaderGet(headers, ContentLength) # <<>>
    THEN [length |-> Atoi(HeaderGet(headers, ContentLength)).val, rest |-> data]
    ELSE IF HeaderGet(headers, TransferEncoding) # <<>>
         THEN LET rd == ReadString(data, endErr)
                  n  == ParseInt(TrimRightSpace(rd.line), 16)
              IN  [length |-> IF rd.err # Nil \/ n.err # Nil THEN 0 ELSE n.val,
                   rest |-> rd.rest]
         ELSE [length |-> 0, rest |-> data]

\* determineBodyLength reading the line after the header section in every case,
\* as ParseRequest did before the reader was handed to determineBodyLength
determineBodyLengthReadsOnset(headers, data, endErr) ==
    LET rd == ReadString(data, endErr)
        n  == ParseInt(TrimRightSpace(rd.line), 16)
    IN  IF HeaderGet(headers, TransferEncoding) # <<>>
        THEN [length |-> IF rd.err # Nil \/ n.err # Nil THEN 0 ELSE n.val,
              rest |-> rd.rest]
        ELSE IF HeaderGet(headers, ContentLength) # <<>>
             THEN [length |-> Atoi(HeaderGet(headers, ContentLength)).val,
                   rest |-> rd.rest]
             ELSE [length |-> 0, rest |-> rd.rest]

\* determineBodyLength(headers, r): the length, and what the reader r still holds
determineBodyLength(headers, data, endErr) ==
    IF HeaderGet(headers, TransferEncoding) # <<>>
    THEN LET rd == ReadString(data, endErr)
             n  == ParseInt(TrimRightSpace(rd.line), 16)
         IN  IF rd.err # Nil
             THEN [length |-> 0, rest |-> rd.rest]
             ELSE IF n.err # Nil
                  THEN [length |-> 0, rest |-> rd.rest]
                  ELSE [length |-> n.val, rest |-> rd.rest]
    ELSE IF HeaderGet(headers, ContentLength) # <<>>
         THEN [length |-> Atoi(HeaderGet(headers, ContentLength)).val, rest |-> data]
         ELSE [length |-> 0, rest |-> data]

\* The field value components joined by ", " (RFC 7230, section 3.2.6)
RECURSIVE JoinValues(_)
JoinValues(values) ==
    IF values = <<>> THEN <<>>
    ELSE IF Len(values) = 1 THEN values[1]
    ELSE values[1] \o <<",", SP>> \o JoinValues(Tail(values))

\* The header lines, written in the order the map iteration visits the names
RECURSIVE HeaderLinesOf(_, _)
HeaderLinesOf(header, order) ==
    IF order = <<>> THEN <<>>
    ELSE order[1] \o <<":", SP>> \o JoinValues(header[order[1]]) \o CRLF
         \o HeaderLinesOf(header, Tail(order))

\* SerializeRequest(r), for one order of the iteration over the map r.Header.
\* A nil r.Body makes ioutil.ReadAll dereference nil: the call panics.
SerializeRequest(r, order) ==
    LET first     == r.Method \o <<SP>> \o UrlString(r.URL) \o <<SP>> \o r.Proto \o CRLF
        buf       == first \o HeaderLinesOf(r.Header, order)
    IN  IF r.Body = <<>>
        THEN [out |-> <<>>, err |-> Nil, panic |-> TRUE]
        ELSE IF Len(r.Body[1]) = 0
             THEN [out |-> buf, err |-> Nil, panic |-> FALSE]
             ELSE [out |-> buf \o CRLF \o r.Body[1], err |-> Nil, panic |-> FALSE]

\* The orders in which a range over a map may visit its keys: all of them
Orders(keys) ==
    {o \in [1..Cardinality(keys) -> keys] : \A i, j \in DOMAIN o : i # j => o[i] # o[j]}

----------------------------------------------------------------------------
(* The byte streams the connections deliver *)

MaxBlank == 2    \* leading blank lines of a stream
MaxHeaders == 2  \* header lines of a stream

GET == <<"G", "E", "T">>
Slash == <<"/">>
HTTP11 == <<"H", "T", "T", "P", "/", "1", ".", "1">>
Host == <<"H", "o", "s", "t">>
WwwExampleCom == <<"w", "w", "w", ".", "e", "x", "a", "m", "p", "l", "e", ".", "c", "o", "m">>
Chunked == <<"c", "h", "u", "n", "k", "e", "d">>

RECURSIVE Concat(_)
Concat(ss) == IF ss = <<>> THEN <<>> ELSE ss[1] \o Concat(Tail(ss))

Repeat(s, n) == Concat([i \in 1..n |-> s])

GoodRequestLine == GET \o <<SP>> \o Slash \o <<SP>> \o HTTP11
ShortRequestLine == GET \o <<SP>> \o Slash

HostField == Host \o <<":", SP>> \o WwwExampleCom
ContentLengthField == ContentLength \o <<":", SP, "3">>
TransferEncodingField == TransferEncoding \o <<":", SP>> \o Chunked
NoColonField == ContentLength \o <<SP, "1", "0", "2", "4">>
BadContentLengthField == ContentLength \o <<":", SP, "a", "b", "c">>
NegContentLengthField == ContentLength \o <<":", SP, "-", "5">>

RequestLines == {GoodRequestLine, ShortRequestLine}
HeaderFieldLines ==
    {HostField, ContentLengthField, TransferEncodingField, NoColonField,
     BadContentLengthField, NegContentLengthField}
Eols == {CRLF, <<LF>>}
Ends == {CRLF, <<LF>>, <<>>}
Tails == {<<>>, <<"a", "b", "c">>, <<"a", "b">>, <<"a", "b", "c", "d">>,
          <<"3", CR, LF, "a", "b", "c">>, <<"z", "z", CR, LF>>,
          <<"0", CR, LF, "a", "b">>}
ErrTimeout == "i/o timeout"
EndErrs == {ErrEOF, ErrTimeout}

HeaderSeqs == UNION {[1..n -> HeaderFieldLines] : n \in 0..MaxHeaders}

\* A stream: blank lines, the request line, header lines, the line that ends the
\* header section (or none), and the bytes after it; or (cut) a stream that ends
\* inside the request line.  endErr is what a read past the last byte returns.
Inputs ==
    {in \in [eol : Eols, blanks : 0..MaxBlank, reqLine : RequestLines, cut : BOOLEAN,
             headers : HeaderSeqs, end : Ends, tail : Tails, endErr : EndErrs] :
        in.cut => in.headers = <<>> /\ in.end = <<>> /\ in.tail = <<>>}

Render(in) ==
    Repeat(in.eol, in.blanks) \o in.reqLine \o
    (IF in.cut THEN <<>>
     ELSE in.eol \o Concat([i \in 1..Len(in.headers) |-> in.headers[i] \o in.eol])
          \o in.end \o in.tail)

NoInput == [eol |-> <<>>, blanks |-> 0, reqLine |-> <<>>, cut |-> TRUE,
            headers |-> <<>>, end |-> <<>>, tail |-> <<>>, endErr |-> ErrEOF]

----------------------------------------------------------------------------
(* ParseRequest, one goroutine per connection (src/unnamed/part_000, main) *)

Goroutines == {1, 2}

\* http.Request{}: its nil map Header reads as the empty map
ZeroRequest ==
    [Method |-> <<>>, URL |-> <<>>, Proto |-> <<>>, Header |-> EmptyHeader, Body |-> <<>>]
NoReturn == [req |-> <<>>, err |-> Nil, at |-> "none"]

Min(a, b) == IF a < b THEN a ELSE b

Init ==
    /\ allowLFLineEndings = FALSE
    /\ pc = [p \in Goroutines |-> "idle"]
    /\ input = [p \in Goroutines |-> NoInput]
    /\ stream = [p \in Goroutines |-> <<>>]
    /\ request = [p \in Goroutines |-> ZeroRequest]
    /\ line = [p \in Goroutines |-> <<>>]
    /\ length = [p \in Goroutines |-> 0]
    /\ body = [p \in Goroutines |-> <<>>]
    /\ ret = [p \in Goroutines |-> NoReturn]
    /\ lfAtStart = [p \in Goroutines |-> FALSE]
    /\ lfSeen = [p \in Goroutines |-> {}]
    /\ startLine = [p \in Goroutines |-> <<>>]
    /\ call = [fn |-> "none", arg |-> <<>>, out |-> <<>>]

\* AllowLFLineEndings(allow)
AllowLFLineEndings(allow) ==
    /\ allowLFLineEndings' = allow
    /\ UNCHANGED <<pc, input, stream, request, line, length, body, ret, lfAtStart,
                   lfSeen, startLine, call>>

\* return req, err from ParseRequest, in the step named at
Return(p, req, err, at) ==
    /\ ret' = [ret EXCEPT ![p] = [req |-> req, err |-> err, at |-> at]]
    /\ pc' = [pc EXCEPT ![p] = "done"]

\* main: a connection is accepted and its goroutine enters ParseRequest
Accept(p, ins) ==
    /\ pc[p] = "idle"
    /\ \E in \in ins :
        /\ input' = [input EXCEPT ![p] = in]
        /\ stream' = [stream EXCEPT ![p] = Render(in)]
    /\ pc' = [pc EXCEPT ![p] = "skip"]
    /\ request' = [request EXCEPT ![p] = ZeroRequest]
    /\ lfAtStart' = [lfAtStart EXCEPT ![p] = allowLFLineEndings]
    /\ UNCHANGED <<allowLFLineEndings, line, length, body, ret, lfSeen, startLine, call>>

\* One iteration of the first loop of ParseRequest: a line is read and is an
\* error, a blank line to skip, or the request line.
SkipBlankLines(p) ==
    /\ pc[p] = "skip"
    /\ LET rd == ReadString(stream[p], input[p].endErr)
           rl == parseRequestLine(rd.line)
       IN  /\ stream' = [stream EXCEPT ![p] = rd.rest]
           /\ IF rd.err # Nil
              THEN /\ Return(p, <<>>, rd.err, "skip")
                   /\ UNCHANGED <<request, lfSeen, startLine>>
              ELSE /\ lfSeen' = [lfSeen EXCEPT ![p] = @ \cup {allowLFLineEndings}]
                   /\ IF isNewLine(rd.line, allowLFLineEndings)
                      THEN UNCHANGED <<pc, ret, request, startLine>>
                      ELSE /\ startLine' = [startLine EXCEPT ![p] = rd.line]
                           /\ IF rl.err # Nil
                              THEN /\ Return(p, <<>>, rl.err, "start")
                                   /\ UNCHANGED request
                              ELSE /\ request' = [request EXCEPT ![p] =
                                          [@ EXCEPT !.Method = rl.method,
                                                    !.URL = rl.url,
                                                    !.Proto = rl.protocol,
                                                    !.Header = EmptyHeader]]
                                   /\ pc' = [pc EXCEPT ![p] = "headers"]
                                   /\ UNCHANGED ret
    /\ UNCHANGED <<allowLFLineEndings, input, line, length, body, lfAtStart, call>>

\* One iteration of the second loop of ParseRequest and, when it breaks, the
\* check of the line it broke on.
HeaderLoop(p) ==
    /\ pc[p] = "headers"
    /\ LET rd == ReadString(stream[p], input[p].endErr)
           hf == parseHeaderField(rd.line)
       IN  /\ stream' = [stream EXCEPT ![p] = rd.rest]
           /\ line' = [line EXCEPT ![p] = rd.line]
           /\ lfSeen' = [lfSeen EXCEPT ![p] =
                           IF rd.err = Nil THEN @ \cup {allowLFLineEndings} ELSE @]
           /\ IF rd.err # Nil /\ rd.err # ErrEOF
              THEN /\ Return(p, <<>>, rd.err, "headers")
                   /\ UNCHANGED request
              ELSE IF rd.err = ErrEOF \/ isNewLine(rd.line, allowLFLineEndings)
                      \/ rd.line = CRLF
              THEN /\ UNCHANGED request
                   /\ IF rd.line # CRLF
                      THEN Return(p, <<>>, ErrNoEmptyLine, "headers")
                      ELSE /\ pc' = [pc EXCEPT ![p] = "length"]
                           /\ UNCHANGED ret
              ELSE IF hf.err # Nil
              THEN /\ Return(p, <<>>, hf.err, "headers")
                   /\ UNCHANGED request
              ELSE /\ request' = [request EXCEPT ![p].Header =
                                     HeaderAdd(@, hf.name, hf.value)]
                   /\ UNCHANGED <<pc, ret>>
    /\ UNCHANGED <<allowLFLineEndings, input, length, body, lfAtStart, startLine, call>>

\* determineBodyLength and the test of its result
ResolveBodyLength(p) ==
    /\ pc[p] = "length"
    /\ LET r == determineBodyLength(request[p].Header, stream[p], input[p].endErr)
       IN  /\ length' = [length EXCEPT ![p] = r.length]
           /\ stream' = [stream EXCEPT ![p] = r.rest]
           /\ IF r.length > 0
              THEN /\ pc' = [pc EXCEPT ![p] = "body"]
                   /\ UNCHANGED ret
              ELSE Return(p, <<>>, Nil, "length")
    /\ UNCHANGED <<allowLFLineEndings, input, request, line, body, lfAtStart, lfSeen,
                   startLine, call>>

\* r.Read(body) and the return.  bufio.Reader.Read hands out what is buffered, or
\* the bytes of one read of the connection: any n from 1 to the smaller of
\* len(body) and the bytes the stream still holds; at the end of the stream it
\* returns 0 and the error.
ReadBody(p) ==
    /\ pc[p] = "body"
    /\ IF stream[p] = <<>>
       THEN /\ Return(p, <<>>, input[p].endErr, "body")
            /\ UNCHANGED <<stream, body>>
       ELSE \E n \in 1..Min(length[p], Len(stream[p])) :
            /\ body' = [body EXCEPT ![p] = SubSeq(stream[p], 1, n)]
            /\ stream' = [stream EXCEPT ![p] = Tail2(stream[p], n)]
            /\ IF n # length[p]
               THEN Return(p, <<>>, ErrBodyLength, "body")
               ELSE Return(p, <<>>, Nil, "body")
    /\ UNCHANGED <<allowLFLineEndings, input, request, line, length, lfAtStart, lfSeen,
                   startLine, call>>

\* One caller: it may set the tolerance, then parses one stream.
Configure(allow) ==
    /\ \A p \in Goroutines : pc[p] = "idle"
    /\ AllowLFLineEndings(allow)

Next ==
    \/ \E allow \in BOOLEAN : Configure(allow)
    \/ Accept(1, Inputs)
    \/ SkipBlankLines(1)
    \/ HeaderLoop(1)
    \/ ResolveBodyLength(1)
    \/ ReadBody(1)

Spec == Init /\ [][Next]_vars

----------------------------------------------------------------------------
(* Two connections parsed at once, the tolerance set at any moment.  The
   package variable is written and read without synchronisation: a read that
   races with a write gets the value before or the value after it, which are
   the two orders of the steps below. *)

ConcInputs ==
    {in \in Inputs :
        /\ in.reqLine = GoodRequestLine /\ ~in.cut /\ in.endErr = ErrEOF
        /\ \/ in.blanks = 1 /\ in.headers = <<>> /\ in.end # <<>> /\ in.tail = <<>>
           \/ /\ in.blanks = 0 /\ in.headers = <<ContentLengthField>>
              /\ in.eol = CRLF /\ in.end = CRLF /\ in.tail = <<"a", "b", "c">>}

NextConc ==
    \/ \E allow \in BOOLEAN : AllowLFLineEndings(allow)
    \/ \E p \in Goroutines :
        \/ Accept(p, ConcInputs)
        \/ SkipBlankLines(p)
        \/ HeaderLoop(p)
        \/ ResolveBodyLength(p)
        \/ ReadBody(p)

SpecConc == Init /\ [][NextConc]_vars

----------------------------------------------------------------------------
(* The helpers and SerializeRequest called directly, as the tests call them:
   the tolerance is set, then one call is made *)

POST == <<"P", "O", "S", "T">>
ExampleCom == <<"e", "x", "a", "m", "p", "l", "e", ".", "c", "o", "m">>
GzipChunked == <<"g", "z", "i", "p", ",", SP, "c", "h", "u", "n", "k", "e", "d">>
Gzip == <<"g", "z", "i", "p">>

Terminators == {CRLF, <<LF>>, <<>>}

RequestLineArgs ==
    {m \o <<SP>> \o t \o rest \o e :
        m \in {GET, POST}, t \in {Slash, ExampleCom},
        rest \in {<<>>, <<SP>> \o HTTP11, <<SP>> \o HTTP11 \o <<SP, "x">>},
        e \in Terminators}

HeaderFieldArgs ==
    {n \o sep \o v \o e :
        n \in {Host, ContentLength, <<>>},
        sep \in {<<":">>, <<":", SP>>, <<SP>>},
        v \in {<<"1", "0", "2", "4">>, WwwExampleCom, <<"a", ":", "b">>, <<>>},
        e \in Terminators}

\* The headers of TestDetermineBodyLength: a header is added when it is given
RECURSIVE AddAll(_, _, _)
AddAll(h, key, values) ==
    IF values = <<>> THEN h ELSE AddAll(HeaderAdd(h, key, values[1]), key, Tail(values))

\* te and cl are the lists of the values given for the two headers
HeadersOf(te, cl) == AddAll(AddAll(EmptyHeader, TransferEncoding, te), ContentLength, cl)

TransferEncodingArgs == {<<>>, <<GzipChunked>>, <<<<>>>>}
ContentLengthArgs == {<<>>, <<<<"2", "0", "4", "8">>>>, <<<<"1", "0">>>>, <<<<"a", "b", "c">>>>,
                      <<<<"-", "5">>>>}
BodyArgs == {<<"4", "0", "0", CR, LF>>, <<"4", "0", "0", LF>>, <<"4", "0", "0">>,
             <<"1", "0", SP, CR, LF, "x">>, <<"z", "z", CR, LF>>, <<>>}

HeaderArgs ==
    {AddAll(AddAll(AddAll(EmptyHeader, Host, v1), TransferEncoding, v2), ContentLength, v3) :
        v1 \in {<<>>, <<ExampleCom>>},
        v2 \in {<<>>, <<Gzip, Chunked>>},
        v3 \in {<<>>, <<<<"3">>>>}}

\* http.NoBody: a body that is there and holds no byte
NoBody == <<<<>>>>

RequestArgs ==
    {[Method |-> GET, URL |-> <<[raw |-> Slash]>>, Proto |-> HTTP11, Header |-> h, Body |-> b] :
        h \in HeaderArgs, b \in {<<>>, NoBody, <<<<"a", "b", "c">>>>}}

LineArgs == {CRLF, <<LF>>, <<CR>>, <<>>, <<"a", CR, LF>>, <<LF, CR>>}

parseVars == <<allowLFLineEndings, pc, input, stream, request, line, length, body,
               ret, lfAtStart, lfSeen, startLine>>

CallIsNewLine ==
    /\ call.fn = "none"
    /\ \E l \in LineArgs :
        call' = [fn  |-> "isNewLine",
                 arg |-> [line |-> l, allow |-> allowLFLineEndings],
                 out |-> isNewLine(l, allowLFLineEndings)]
    /\ UNCHANGED parseVars

CallParseRequestLine ==
    /\ call.fn = "none"
    /\ \E l \in RequestLineArgs :
        call' = [fn |-> "parseRequestLine", arg |-> l, out |-> parseRequestLine(l)]
    /\ UNCHANGED parseVars

CallParseHeaderField ==
    /\ call.fn = "none"
    /\ \E l \in HeaderFieldArgs :
        call' = [fn |-> "parseHeaderField", arg |-> l, out |-> parseHeaderField(l)]
    /\ UNCHANGED parseVars

CallDetermineBodyLength ==
    /\ call.fn = "none"
    /\ \E te \in TransferEncodingArgs, cl \in ContentLengthArgs, b \in BodyArgs,
          e \in EndErrs :
        call' = [fn  |-> "determineBodyLength",
                 arg |-> [te |-> te, cl |-> cl, body |-> b, endErr |-> e],
                 out |-> determineBodyLength(HeadersOf(te, cl), b, e)]
    /\ UNCHANGED parseVars

CallSerializeRequest ==
    /\ call.fn = "none"
    /\ \E r \in RequestArgs :
        \E order \in Orders(DOMAIN r.Header) :
            call' = [fn  |-> "SerializeRequest",
                     arg |-> [r |-> r, order |-> order],
                     out |-> SerializeRequest(r, order)]
    /\ UNCHANGED parseVars

NextFn ==
    \/ \E allow \in BOOLEAN : call.fn = "none" /\ AllowLFLineEndings(allow)
    \/ CallIsNewLine
    \/ CallParseRequestLine
    \/ CallParseHeaderField
    \/ CallDetermineBodyLength
    \/ CallSerializeRequest

SpecFn == Init /\ [][NextFn]_vars

----------------------------------------------------------------------------
(* The round trip: a request is serialized, the bytes are parsed, and the
   result of the parse is serialized again *)

\* The bytes of a serialized request as the stream of a connection
SerializedInput(bytes) == [NoInput EXCEPT !.reqLine = bytes]

\* ParseRequest is called on a reader over the output of SerializeRequest
Deliver(p) ==
    /\ call.fn = "SerializeRequest"
    /\ ~call.out.panic
    /\ Accept(p, {SerializedInput(call.out.out)})

\* SerializeRequest(r) for the pointer ParseRequest returned: r.Method of a nil
\* pointer is a nil dereference, the call panics.
SerializeRequestPtr(rp, order) ==
    IF rp = <<>>
    THEN [out |-> <<>>, err |-> Nil, panic |-> TRUE]
    ELSE SerializeRequest(rp[1], order)

\* The caller, having got no error, serializes what ParseRequest returned
Reserialize(p) ==
    /\ call.fn = "SerializeRequest"
    /\ pc[p] = "done"
    /\ ret[p].err = Nil
    /\ \E order \in (IF ret[p].req = <<>> THEN {<<>>}
                     ELSE Orders(DOMAIN ret[p].req[1].Header)) :
        call' = [fn  |-> "RoundTrip",
                 arg |-> [m |-> call.arg.r, first |-> call.out.out, r |-> ret[p].req],
                 out |-> SerializeRequestPtr(ret[p].req, order)]
    /\ UNCHANGED parseVars

NextRoundTrip ==
    \/ CallSerializeRequest
    \/ Deliver(1)
    \/ SkipBlankLines(1)
    \/ HeaderLoop(1)
    \/ ResolveBodyLength(1)
    \/ ReadBody(1)
    \/ Reserialize(1)

SpecRoundTrip == Init /\ [][NextRoundTrip]_vars

----------------------------------------------------------------------------
(* The claims *)

\* The streams the claims speak of, by the way they were put together
GoodHeaders(in) == \A i \in 1..Len(in.headers) : in.headers[i] = HostField
NoBodyRequest(in, eol, end) ==
    /\ ~in.cut /\ in.reqLine = GoodRequestLine /\ GoodHeaders(in)
    /\ in.eol = eol /\ in.end = end /\ in.tail = <<>>

\* Every header line of the stream is a field of the header h
HoldsEveryField(h, in) ==
    \A i \in 1..Len(in.headers) :
        \E k \in DOMAIN h : \E j \in 1..Len(h[k]) :
            k \o <<":", SP>> \o h[k][j] = in.headers[i]

\* C1: a well-formed request stream (leading blank lines, a request line of three
\* tokens, header lines, a blank line, no body; all lines ending in CRLF) parses
\* without error to a request that is not nil, holds the three tokens of the
\* request line and every header field, and has no body.
C1_ParsesWellFormedRequest ==
    \A p \in Goroutines :
        pc[p] = "done" /\ NoBodyRequest(input[p], CRLF, CRLF) =>
            /\ ret[p].err = Nil
            /\ ret[p].req # <<>>
            /\ ret[p].req[1].Method = GET
            /\ UrlString(ret[p].req[1].URL) = Slash
            /\ ret[p].req[1].Proto = HTTP11
            /\ HoldsEveryField(ret[p].req[1].Header, input[p])
            /\ ret[p].req[1].Body = <<>>

\* C2: SerializeRequest writes the start line, one line per header name with its
\* values joined by ", ", then always one blank CRLF line, then the body bytes
\* when the body is not empty.
C2_SerializeLayout ==
    call.fn = "SerializeRequest" /\ ~call.out.panic =>
        LET r == call.arg.r
        IN  call.out.out =
                r.Method \o <<SP>> \o UrlString(r.URL) \o <<SP>> \o r.Proto \o CRLF
                \o HeaderLinesOf(r.Header, call.arg.order)
                \o CRLF
                \o r.Body[1]

\* C3: with the LF tolerance on, a request whose lines and whose header-section
\* terminator all end in a bare LF parses without error: the end of the header
\* section is found by the same rule as the leading blank lines.
C3_LFTolerantTerminator ==
    \A p \in Goroutines :
        pc[p] = "done" /\ lfAtStart[p] /\ NoBodyRequest(input[p], <<LF>>, <<LF>>) =>
            ret[p].err = Nil

\* C4: a parse classifies every one of its lines with the tolerance setting it was
\* started with, whatever other parses and callers do meanwhile.
C4_ToleranceScopedToCall ==
    \A p \in Goroutines : lfSeen[p] \subseteq {lfAtStart[p]}

\* A header is present when Header.Get reports a value for it
Present(values) == values # <<>> /\ values[1] # <<>>

\* The chunk-size lines and Content-Length values that are numbers, and the numbers
ChunkValue(b) ==
    CASE b = <<"4", "0", "0", CR, LF>> -> 1024
      [] b = <<"4", "0", "0", LF>> -> 1024
      [] b = <<"1", "0", SP, CR, LF, "x">> -> 16
      [] OTHER -> -1
DecimalValue(v) ==
    CASE v = <<"2", "0", "4", "8">> -> 2048
      [] v = <<"1", "0">> -> 10
      [] v = <<"-", "5">> -> -5
      [] OTHER -> 0
IsDecimalArg(v) == v \in {<<"2", "0", "4", "8">>, <<"1", "0">>, <<"-", "5">>}

C6_ExactBodyRead ==
    \A p \in Goroutines :
        pc[p] = "done" /\ ret[p].at = "body" =>
            LET avail == body[p] \o stream[p]  \* the stream when r.Read was called
            IN  IF Len(avail) >= length[p]
                THEN /\ ret[p].err = Nil
                     /\ ret[p].req # <<>>
                     /\ ret[p].req[1].Body = <<SubSeq(avail, 1, length[p])>>
                ELSE ret[p].err # Nil /\ ret[p].req = <<>>

\* The first line of the stream that is not blank under the setting lf, as a list
\* of at most one line: none when the stream ends inside the request line
FirstNonBlank(in, lf) ==
    IF in.blanks > 0 /\ in.eol = <<LF>> /\ ~lf THEN <<in.eol>>
    ELSE IF in.cut THEN <<>>
    ELSE <<in.reqLine \o in.eol>>

\* C7: ParseRequest skips the leading blank lines, however many, and takes the
\* first line that is not blank as the start line; when the stream ends first it
\* returns the error of the stream and no message.
C7_SkipsLeadingBlankLines ==
    \A p \in Goroutines :
        LET first == FirstNonBlank(input[p], lfAtStart[p])
        IN  /\ pc[p] \notin {"idle", "skip"} /\ ret[p].at # "skip" =>
                first # <<>> /\ startLine[p] = first[1]
            /\ pc[p] = "done" /\ ret[p].at = "skip" =>
                /\ first = <<>>
                /\ ret[p].err = input[p].endErr
                /\ ret[p].req = <<>>

\* C7, its case: two blank lines were skipped and the request line was taken
C7_Witness ==
    /\ pc[1] = "headers"
    /\ input[1].blanks >= 2
    /\ startLine[1] = GoodRequestLine \o input[1].eol

\* C8: for a request line of three tokens, ending in CRLF, in LF or in nothing,
\* parseRequestLine returns the three tokens, the last one without any CR or LF.
C8_TerminatorStripped ==
    call.fn = "parseRequestLine" =>
        \A m \in {GET, POST}, t \in {Slash, ExampleCom}, e \in Terminators :
            call.arg = m \o <<SP>> \o t \o <<SP>> \o HTTP11 \o e =>
                /\ call.out.err = Nil
                /\ call.out.method = m
                /\ UrlString(call.out.url) = t
                /\ call.out.protocol = HTTP11

\* C9: parseHeaderField splits at the first colon only: a line without a colon, or
\* with nothing before it, is an error; any other line gives the text before the
\* first colon as name and all after it as value, both trimmed.
C9_SplitsAtFirstColon ==
    call.fn = "parseHeaderField" =>
        LET l == call.arg
            i == IndexByte(l, ":")
        IN  IF i <= 1
            THEN call.out.err = ErrHeaderField
            ELSE /\ call.out.err = Nil
                 /\ call.out.name = TrimSpace(SubSeq(l, 1, i - 1))
                 /\ call.out.value = TrimSpace(Tail2(l, i))

\* C10: when the stream ends in the header section before a blank line was read,
\* ParseRequest takes the headers read so far as all the headers, reads no body and
\* returns the message without error.
C10_EndOfStreamInHeaders ==
    \A p \in Goroutines :
        /\ pc[p] = "done"
        /\ NoBodyRequest(input[p], CRLF, <<>>)
        /\ input[p].endErr = ErrEOF
        => /\ ret[p].err = Nil
           /\ ret[p].req # <<>>
           /\ HoldsEveryField(ret[p].req[1].Header, input[p])
           /\ ret[p].at # "body"

\* The streams whose parse reaches the resolution of the body length: a request
\* line of three tokens, header lines that all hold a colon, and the CRLF blank line
HasField(in, f) == \E i \in 1..Len(in.headers) : in.headers[i] = f
ReachesLength(in) ==
    /\ ~in.cut /\ in.reqLine = GoodRequestLine /\ in.end = CRLF
    /\ ~HasField(in, NoColonField)
BadChunkLine == <<"z", "z", CR, LF>>

\* C11: a length value that does not parse makes the parse fail and is never
\* replaced by a length: with Transfer-Encoding present and a chunk-size line that
\* is not a hexadecimal integer, and with only Content-Length present and a value
\* that is not a non-negative decimal integer ("abc", "-5"), ParseRequest returns
\* an error and no request.
C11_UnparsableLengthIsError ==
    \A p \in Goroutines :
        /\ pc[p] = "done"
        /\ ReachesLength(input[p])
        /\ \/ /\ HasField(input[p], TransferEncodingField)
              /\ input[p].tail = BadChunkLine
           \/ /\ ~HasField(input[p], TransferEncodingField)
              /\ ~HasField(input[p], ContentLengthField)
              /\ \/ HasField(input[p], BadContentLengthField)
                 \/ HasField(input[p], NegContentLengthField)
        => /\ ret[p].err # Nil
           /\ ret[p].req = <<>>

\* The requests the round trip is claimed for: a body that is empty or not, and
\* no header name with more than one value
NoDuplicateNames(h) == \A k \in DOMAIN h : Len(h[k]) = 1

\* C12: for every request m with no body or a non-empty body and no duplicate
\* header names, parsing the bytes of SerializeRequest(m) succeeds and
\* serializing the parsed request gives the same bytes again.
C12_RoundTrip ==
    \A p \in Goroutines :
        /\ pc[p] = "done" /\ call.fn = "SerializeRequest"
           /\ NoDuplicateNames(call.arg.r.Header)
           => ret[p].err = Nil
        /\ call.fn = "RoundTrip" /\ NoDuplicateNames(call.arg.m.Header)
           => /\ ~call.out.panic
              /\ call.out.out = call.arg.first

\* The names of a header of HeaderArgs in the order in which they were added
InsertionOrder(h) ==
    SelectSeq(<<Host, TransferEncoding, ContentLength>>, LAMBDA k : k \in DOMAIN h)

\* C13: SerializeRequest writes the header lines in the order in which the names
\* were first added to the header, so the bytes are a function of the request
\* alone: after the request line the output goes on with the header lines in
\* insertion order.
C13_InsertionOrder ==
    call.fn = "SerializeRequest" /\ ~call.out.panic =>
        LET r      == call.arg.r
            prefix == r.Method \o <<SP>> \o UrlString(r.URL) \o <<SP>> \o r.Proto \o CRLF
                      \o HeaderLinesOf(r.Header, InsertionOrder(r.Header))
        IN  /\ Len(call.out.out) >= Len(prefix)
            /\ SubSeq(call.out.out, 1, Len(prefix)) = prefix

\* The phases of a parse in their order, and the phases in which it runs
PhaseRank(l) ==
    CASE l = "idle" -> 0 [] l = "skip" -> 1 [] l = "headers" -> 2
      [] l = "length" -> 3 [] l = "body" -> 4 [] l = "done" -> 5
Parsing == {"skip", "headers", "length", "body"}

\* A step of a running parse keeps the order of the phases, leaves a request line
\* once parsed alone, and moves to a later phase or consumes bytes of the stream
PhaseStep(p) ==
    /\ PhaseRank(pc'[p]) >= PhaseRank(pc[p])
    /\ startLine[p] # <<>> => startLine'[p] = startLine[p]
    /\ pc[p] \in Parsing =>
          \/ PhaseRank(pc'[p]) > PhaseRank(pc[p])
          \/ Len(stream'[p]) < Len(stream[p])

\* A parse past the first loop has parsed a request line; a parse that returned
\* is in one of the two terminal states: a request and no error, or an error and
\* no request
PhaseState(p) ==
    /\ pc[p] \in {"headers", "length", "body"} => startLine[p] # <<>>
    /\ pc[p] = "done" =>
          \/ ret[p].err = Nil /\ ret[p].req # <<>>
          \/ ret[p].err # Nil /\ ret[p].req = <<>>

\* C14: on every finite stream a parse goes through the phases SkipBlankLines,
\* StartLine, Headers, ResolveBodyLength, ReadBody in that order and never back,
\* parses the request line once, makes progress with every step (so it ends when
\* the stream ends or fails), and ends in exactly one terminal state: success
\* with a request, or an error.
C14_PhasesAndTermination ==
    /\ [][\A p \in Goroutines : PhaseStep(p)]_vars
    /\ [](\A p \in Goroutines : PhaseState(p))

\* The reader went from the bytes before to the bytes after by one ReadString:
\* the bytes up to and with the first line feed are gone, or all of them when
\* there is no line feed
ConsumedOneLine(before, after) ==
    LET n == Len(before) - Len(after)
    IN  /\ n >= 0
        /\ after = SubSeq(before, n + 1, Len(before))
        /\ \A i \in 1..(n - 1) : before[i] # LF
        /\ \/ n > 0 /\ before[n] = LF
           \/ n = Len(before) /\ (n > 0 => before[n] # LF)

\* The step that resolves the body length, for a stream with or without a
\* Transfer-Encoding line: no byte, or one line, is consumed
ResolutionFrame(p) ==
    IF HasField(input[p], TransferEncodingField)
    THEN ConsumedOneLine(stream[p], stream'[p])
    ELSE stream'[p] = stream[p]

\* After a resolution to the length 0 the parse has returned and the bytes after
\* the blank line are all still in the reader
NothingReadAfterBlankLine(p) ==
    length'[p] = 0 => pc'[p] = "done" /\ stream'[p] = input[p].tail

\* C15 as stated: the resolution of the body length consumes no byte with
\* Transfer-Encoding absent and exactly one line with it present, and whenever the
\* resolved length is 0 ParseRequest consumes no byte after the blank line that
\* ends the header section.
C15_ZeroLengthReadsNothing ==
    [][\A p \in Goroutines :
          pc[p] = "length" /\ pc'[p] # "length" =>
              /\ ResolutionFrame(p)
              /\ NothingReadAfterBlankLine(p)]_vars

\* C15, amended: the resolution of the body length consumes no byte with
\* Transfer-Encoding absent and exactly one line (the chunk-size line) with it
\* present; when Transfer-Encoding is absent and the resolved length is 0,
\* ParseRequest returns with every byte after the blank line still in the reader.
C15_LengthResolutionFrame ==
    [][\A p \in Goroutines :
          pc[p] = "length" /\ pc'[p] # "length" =>
              /\ ResolutionFrame(p)
              /\ ~HasField(input[p], TransferEncodingField)
                 => NothingReadAfterBlankLine(p)]_vars

\* A parse without Transfer-Encoding has resolved the length 0 and returned, and
\* bytes that follow the message are still in the reader
C15_Witness ==
    \E p \in Goroutines :
        /\ pc[p] = "done" /\ ret[p].at = "length" /\ length[p] = 0
        /\ ~HasField(input[p], TransferEncodingField)
        /\ input[p].tail # <<>>
        /\ stream[p] = input[p].tail

====
